---- MODULE Spec2Model ----
(***************************************************************************)
(* Job application tracker (src/App.tsx): a React component holding a      *)
(* per-day history of counts, a one-second date poll (useDate), a          *)
(* localStorage blob under "jobApplicationHistory", and memoised summary   *)
(* statistics.                                                             *)
(*                                                                         *)
(* Modelling conventions                                                   *)
(*  - A JS string is a sequence of one-character strings; string           *)
(*    comparison is by code unit, as in JS.                                *)
(*  - A JS object is a function from property names to values; the         *)
(*    entries of the history have the properties "date" and "count"        *)
(*    (a parsed entry may lack "count").                                   *)
(*  - JSON text is a sequence of tokens (punctuation, string literal,      *)
(*    number literal, bare word); JSON.stringify and JSON.parse are a      *)
(*    printer and a recursive-descent parser over that sequence.           *)
(*  - The clock is a day number counted from Epoch; toLocaleDateString     *)
(*    turns it into "YYYY-MM-DD" through the civil calendar.               *)
(*  - React: state updates are queued and applied by the next render; the  *)
(*    effects of a commit run in declaration order, one step each, and     *)
(*    nothing else runs in between (run to completion).                    *)
(***************************************************************************)
EXTENDS Integers, Sequences, FiniteSets, TLC

\* Bounds of the model.
MaxDay == 1     \* the clock runs over the days 0..MaxDay
MaxCount == 2   \* a click on +1 is taken while the count is below MaxCount
MaxQueue == 1   \* a click is taken while fewer than MaxQueue history updates wait
FnMaxLen == 2   \* the longest history the function checks start from

VARIABLES
  now,          \* the system clock, in days after Epoch
  storage,      \* localStorage["jobApplicationHistory"]: [present, text]
  status,       \* "mounted", "unmounted" (teardown) or "crashed" (render threw)
  isClient,     \* useState(false)
  history,      \* useState<TrackerData[]>([]), as of the last commit
  todayDate,    \* useDate's useState, as of the last commit
  qClient,      \* a setIsClient(true) is queued
  qDate,        \* the queued setTodayDate value (the last one wins), or <<>>
  qHist,        \* the queued setHistory updates, in call order
  effects,      \* the effects of the last commit still to run, in order
  timers,       \* the active setInterval callbacks: the todayDate each captured
  summaryStats, \* the useMemo value shown
  todayCount,   \* the useMemo value shown
  fnOp,         \* function checks: the operation(s) last applied
  fnIn          \* function checks: the history they were applied to

vars == <<now, storage, status, isClient, history, todayDate, qClient, qDate,
          qHist, effects, timers, summaryStats, todayCount, fnOp, fnIn>>

fnVars == <<fnOp, fnIn>>

----------------------------------------------------------------------------
(* Strings and dates *)

Digit(n) == <<"0", "1", "2", "3", "4", "5", "6", "7", "8", "9">>[n + 1]

Pad2(n) == <<Digit(n \div 10), Digit(n % 10)>>

Pad4(n) == <<Digit(n \div 1000), Digit((n \div 100) % 10),
             Digit((n \div 10) % 10), Digit(n % 10)>>

\* UTF-16 code unit of the characters the model uses.
CharCode(c) ==
  CASE c = "-" -> 45
    [] c = "0" -> 48 [] c = "1" -> 49 [] c = "2" -> 50 [] c = "3" -> 51
    [] c = "4" -> 52 [] c = "5" -> 53 [] c = "6" -> 54 [] c = "7" -> 55
    [] c = "8" -> 56 [] c = "9" -> 57
    [] c = "a" -> 97 [] c = "c" -> 99 [] c = "d" -> 100 [] c = "e" -> 101
    [] c = "n" -> 110 [] c = "o" -> 111 [] c = "t" -> 116 [] c = "u" -> 117

\* a >= b on JS strings: the first differing code unit decides, a proper
\* prefix is smaller.
RECURSIVE StrGeq(_, _)
StrGeq(a, b) ==
  IF b = <<>> THEN TRUE
  ELSE IF a = <<>> THEN FALSE
  ELSE IF CharCode(Head(a)) # CharCode(Head(b))
       THEN CharCode(Head(a)) > CharCode(Head(b))
       ELSE StrGeq(Tail(a), Tail(b))

\* The calendar day that is day 0 of the clock.
Epoch == [y |-> 2024, m |-> 6, d |-> 10]

IsLeap(y) == (y % 4 = 0 /\ y % 100 # 0) \/ y % 400 = 0

DaysInMonth(y, m) ==
  IF m = 2 THEN (IF IsLeap(y) THEN 29 ELSE 28)
  ELSE IF m \in {4, 6, 9, 11} THEN 30 ELSE 31

NextDay(c) ==
  IF c.d < DaysInMonth(c.y, c.m) THEN [c EXCEPT !.d = c.d + 1]
  ELSE IF c.m < 12 THEN [y |-> c.y, m |-> c.m + 1, d |-> 1]
  ELSE [y |-> c.y + 1, m |-> 1, d |-> 1]

PrevDay(c) ==
  IF c.d > 1 THEN [c EXCEPT !.d = c.d - 1]
  ELSE IF c.m > 1 THEN [y |-> c.y, m |-> c.m - 1, d |-> DaysInMonth(c.y, c.m - 1)]
  ELSE [y |-> c.y - 1, m |-> 12, d |-> 31]

\* The civil date k days from c (k may be negative): what Date.setDate
\* normalises to.
RECURSIVE AddDays(_, _)
AddDays(c, k) ==
  IF k = 0 THEN c
  ELSE IF k > 0 THEN AddDays(NextDay(c), k - 1)
  ELSE AddDays(PrevDay(c), k + 1)

\* new Date(day).toLocaleDateString('en-CA'): "YYYY-MM-DD".
ToLocaleDateString(day) ==
  LET c == AddDays(Epoch, day)
  IN Pad4(c.y) \o <<"-">> \o Pad2(c.m) \o <<"-">> \o Pad2(c.d)

getTodayDateString == ToLocaleDateString(now)

----------------------------------------------------------------------------
(* JSON text *)

P(c) == [p |-> c]       \* punctuation
S(chars) == [s |-> chars] \* string literal
N(k) == [n |-> k]       \* number literal
W(w) == [w |-> w]       \* bare word: null, or text that is no JSON

IsP(t, c) == "p" \in DOMAIN t /\ t.p = c

StrDate == <<"d", "a", "t", "e">>
StrCount == <<"c", "o", "u", "n", "t">>

PropertyName(chars) ==
  CASE chars = StrDate -> "date"
    [] chars = StrCount -> "count"

\* JSON.stringify of one entry: its defined properties.
StringifyEntry(e) ==
  <<P("{"), S(StrDate), P(":"), S(e.date)>>
  \o (IF "count" \in DOMAIN e THEN <<P(","), S(StrCount), P(":"), N(e.count)>>
      ELSE <<>>)
  \o <<P("}")>>

RECURSIVE StringifyEntries(_)
StringifyEntries(h) ==
  IF Len(h) = 0 THEN <<>>
  ELSE IF Len(h) = 1 THEN StringifyEntry(h[1])
  ELSE StringifyEntry(h[1]) \o <<P(",")>> \o StringifyEntries(Tail(h))

\* JSON.stringify(history)
JSONStringify(h) == <<P("[")>> \o StringifyEntries(h) \o <<P("]")>>

SyntaxError == [ok |-> FALSE]

\* The members of an object from token i on: key ":" value, then "," or "}".
RECURSIVE ParseMembers(_, _, _)
ParseMembers(toks, i, obj) ==
  IF i + 3 > Len(toks) THEN SyntaxError
  ELSE IF ~("s" \in DOMAIN toks[i] /\ IsP(toks[i + 1], ":")) THEN SyntaxError
  ELSE IF ~("s" \in DOMAIN toks[i + 2] \/ "n" \in DOMAIN toks[i + 2]) THEN SyntaxError
  ELSE
    LET key == PropertyName(toks[i].s)
        val == IF "s" \in DOMAIN toks[i + 2] THEN toks[i + 2].s ELSE toks[i + 2].n
        obj2 == [k \in DOMAIN obj \cup {key} |-> IF k = key THEN val ELSE obj[k]]
    IN IF IsP(toks[i + 3], ",") THEN ParseMembers(toks, i + 4, obj2)
       ELSE IF IsP(toks[i + 3], "}") THEN [ok |-> TRUE, v |-> obj2, next |-> i + 4]
       ELSE SyntaxError

ParseObject(toks, i) ==
  IF i + 1 > Len(toks) \/ ~IsP(toks[i], "{") THEN SyntaxError
  ELSE IF IsP(toks[i + 1], "}") THEN [ok |-> TRUE, v |-> [k \in {} |-> 0], next |-> i + 2]
  ELSE ParseMembers(toks, i + 1, [k \in {} |-> 0])

\* The elements of an array from token i on: object, then "," or "]".
RECURSIVE ParseElements(_, _, _)
ParseElements(toks, i, acc) ==
  LET o == ParseObject(toks, i)
  IN IF ~o.ok THEN SyntaxError
     ELSE IF o.next > Len(toks) THEN SyntaxError
     ELSE IF IsP(toks[o.next], ",") THEN ParseElements(toks, o.next + 1, Append(acc, o.v))
     ELSE IF IsP(toks[o.next], "]")
          THEN [ok |-> TRUE, v |-> Append(acc, o.v), next |-> o.next + 1]
          ELSE SyntaxError

\* JSON.parse(text): ok = FALSE when it throws; otherwise arr tells whether
\* the value is an array, and items are its elements. The values that are
\* no array (null, a number) are not told apart: the code only ever calls
\* array methods on the result.
JSONParse(toks) ==
  IF Len(toks) = 0 THEN SyntaxError
  ELSE IF Len(toks) = 1 /\ ("n" \in DOMAIN toks[1] \/ toks[1] = W("null"))
       THEN [ok |-> TRUE, arr |-> FALSE, items |-> <<>>]
  ELSE IF ~IsP(toks[1], "[") THEN SyntaxError
  ELSE IF Len(toks) = 2 /\ IsP(toks[2], "]") THEN [ok |-> TRUE, arr |-> TRUE, items |-> <<>>]
  ELSE LET r == ParseElements(toks, 2, <<>>)
       IN IF r.ok /\ r.next = Len(toks) + 1
          THEN [ok |-> TRUE, arr |-> TRUE, items |-> r.v]
          ELSE SyntaxError

\* localStorage.getItem: null when the key is absent.
Absent == [present |-> FALSE, text |-> <<>>]
Stored(text) == [present |-> TRUE, text |-> text]

\* The value the load effect passes to setHistory: storedData ? JSON.parse(storedData) : []
\* and [] when JSON.parse throws.
LoadedHistory(storedData) ==
  IF ~storedData.present \/ storedData.text = <<>> THEN [arr |-> TRUE, items |-> <<>>]
  ELSE LET r == JSONParse(storedData.text)
       IN IF r.ok THEN [arr |-> r.arr, items |-> r.items]
          ELSE [arr |-> TRUE, items |-> <<>>]

\* Mutant of SavedStorage: the effect has no early return.
SavedStorageUnguarded(client, h, old) == Stored(JSONStringify(h))

\* Mutant of SavedStorage: only the first record is written.
SavedStorageFirstOnly(client, h, old) ==
  IF ~client \/ Len(h) = 0 THEN old ELSE Stored(JSONStringify(<<h[1]>>))

\* Mutant of SavedStorage: the save is not skipped for the empty history.
SavedStorageNoSkip(client, h, old) ==
  IF ~client THEN old ELSE Stored(JSONStringify(h))

\* What the save effect leaves in storage when it runs with these values.
SavedStorage(client, h, old) ==
  IF ~client \/ Len(h) = 0 THEN old ELSE Stored(JSONStringify(h))

----------------------------------------------------------------------------
(* The history updaters *)

HasDate(h, date) == \E i \in 1..Len(h) : h[i].date = date

\* Mutant of EnsureToday: the record is put in front without looking for one.
EnsureTodayAlways(currentHistory, date) ==
  <<[date |-> date, count |-> 0]>> \o currentHistory

\* Mutant of EnsureToday: the new record replaces the list instead of being
\* put in front of it.
EnsureTodayReplacing(currentHistory, date) ==
  IF HasDate(currentHistory, date) THEN currentHistory
  ELSE <<[date |-> date, count |-> 0]>>

\* The updater of the ensure-today effect.
EnsureToday(currentHistory, date) ==
  IF HasDate(currentHistory, date) THEN currentHistory
  ELSE <<[date |-> date, count |-> 0]>> \o currentHistory

\* Mutant of IncrementUpdater: the date is not compared.
IncrementEvery(currentHistory, date) ==
  [i \in 1..Len(currentHistory) |->
     [currentHistory[i] EXCEPT !.count = @ + 1]]

\* Mutant of IncrementUpdater: the first record is taken for today's.
IncrementFirst(currentHistory, date) ==
  [i \in 1..Len(currentHistory) |->
     IF i = 1
     THEN [currentHistory[i] EXCEPT !.count = @ + 1]
     ELSE currentHistory[i]]

\* Mutant of IncrementUpdater: the count goes down.
DecrementUpdater(currentHistory, date) ==
  [i \in 1..Len(currentHistory) |->
     IF currentHistory[i].date = date
     THEN [currentHistory[i] EXCEPT !.count = @ - 1]
     ELSE currentHistory[i]]

\* Mutant of IncrementUpdater: the count goes up by two.
IncrementTwice(currentHistory, date) ==
  [i \in 1..Len(currentHistory) |->
     IF currentHistory[i].date = date
     THEN [currentHistory[i] EXCEPT !.count = @ + 2]
     ELSE currentHistory[i]]

\* The updater of incrementCount.
IncrementUpdater(currentHistory, date) ==
  [i \in 1..Len(currentHistory) |->
     IF currentHistory[i].date = date
     THEN [currentHistory[i] EXCEPT !.count = @ + 1]
     ELSE currentHistory[i]]

\* Mutant of ResetUpdater: the date is not compared.
ResetEvery(currentHistory, date) ==
  [i \in 1..Len(currentHistory) |->
     [k \in DOMAIN currentHistory[i] \cup {"count"} |->
        IF k = "count" THEN 0 ELSE currentHistory[i][k]]]

\* The updater of resetCount: { ...entry, count: 0 }.
ResetUpdater(currentHistory, date) ==
  [i \in 1..Len(currentHistory) |->
     IF currentHistory[i].date = date
     THEN [k \in DOMAIN currentHistory[i] \cup {"count"} |->
             IF k = "count" THEN 0 ELSE currentHistory[i][k]]
     ELSE currentHistory[i]]

\* One queued setHistory call applied to the state the render has built so
\* far: arr/val is the state, changed whether it is a new object, threw
\* whether an updater threw (an array method called on a value that has none).
ApplyUpdate(s, u) ==
  IF s.threw THEN s
  ELSE IF u.op = "set"
       THEN [arr |-> u.v.arr, val |-> u.v.items, changed |-> TRUE, threw |-> FALSE]
  ELSE IF ~s.arr THEN [s EXCEPT !.threw = TRUE]
  ELSE IF u.op = "ensure"
       THEN [s EXCEPT !.val = EnsureToday(s.val, u.date),
                      !.changed = s.changed \/ ~HasDate(s.val, u.date)]
  ELSE IF u.op = "inc"
       THEN [s EXCEPT !.val = IncrementUpdater(s.val, u.date), !.changed = TRUE]
  ELSE [s EXCEPT !.val = ResetUpdater(s.val, u.date), !.changed = TRUE]

RECURSIVE ProcessQueue(_, _)
ProcessQueue(s, q) ==
  IF q = <<>> THEN s ELSE ProcessQueue(ApplyUpdate(s, Head(q)), Tail(q))

----------------------------------------------------------------------------
(* The memoised values *)

\* A JS number that may be NaN.
Num(k) == [num |-> k]
NaN == [nan |-> TRUE]

\* Mutant of AddCount: the sum is replaced instead of added to.
AddCountLast(sum, e) == Num(e.count)

\* sum + entry.count: an entry without count makes the sum NaN.
AddCount(sum, e) ==
  IF "nan" \in DOMAIN sum \/ "count" \notin DOMAIN e THEN NaN
  ELSE Num(sum.num + e.count)

RECURSIVE SumCounts(_, _)
SumCounts(sum, h) ==
  IF h = <<>> THEN sum ELSE SumCounts(AddCount(sum, Head(h)), Tail(h))

\* history.filter(entry => entry.date >= sevenDaysAgoStr)
RECURSIVE FilterSince(_, _)
FilterSince(h, floorStr) ==
  IF h = <<>> THEN <<>>
  ELSE IF StrGeq(Head(h).date, floorStr)
       THEN <<Head(h)>> \o FilterSince(Tail(h), floorStr)
       ELSE FilterSince(Tail(h), floorStr)

\* history.reduce((max, entry) => entry.count > max.count ? entry : max, ...)
RECURSIVE BestDay(_, _)
BestDay(max, h) ==
  IF h = <<>> THEN max
  ELSE IF "count" \in DOMAIN Head(h) /\ Head(h).count > max.count
       THEN BestDay(Head(h), Tail(h))
       ELSE BestDay(max, Tail(h))

\* Mutant of SummaryStats: the total is taken over the seven-day window too.
SummaryStatsWindowedTotal(h, day) ==
  IF Len(h) = 0
  THEN [total |-> Num(0), last7DaysTotal |-> Num(0), bestDay |-> [count |-> 0]]
  ELSE LET sevenDaysAgoStr == ToLocaleDateString(day - 6)
       IN [total |-> SumCounts(Num(0), FilterSince(h, sevenDaysAgoStr)),
           last7DaysTotal |-> SumCounts(Num(0), FilterSince(h, sevenDaysAgoStr)),
           bestDay |-> BestDay([count |-> 0, date |-> <<>>], h)]

\* The body of the summaryStats memo, run on day `day` of the clock.
SummaryStats(h, day) ==
  IF Len(h) = 0
  THEN [total |-> Num(0), last7DaysTotal |-> Num(0), bestDay |-> [count |-> 0]]
  ELSE LET sevenDaysAgoStr == ToLocaleDateString(day - 6)
       IN [total |-> SumCounts(Num(0), h),
           last7DaysTotal |-> SumCounts(Num(0), FilterSince(h, sevenDaysAgoStr)),
           bestDay |-> BestDay([count |-> 0, date |-> <<>>], h)]

\* history.find(entry => entry.date === todayDate)?.count ?? 0
RECURSIVE TodayCount(_, _)
TodayCount(h, date) ==
  IF h = <<>> THEN 0
  ELSE IF Head(h).date = date
       THEN (IF "count" \in DOMAIN Head(h) THEN Head(h).count ELSE 0)
       ELSE TodayCount(Tail(h), date)

----------------------------------------------------------------------------
(* The persisted values a session may start from *)

\* The history of the specification's example: today 2, six days back 3,
\* seven days back 5.
ExampleHistory ==
  <<[date |-> ToLocaleDateString(0), count |-> 2],
    [date |-> ToLocaleDateString(0 - 6), count |-> 3],
    [date |-> ToLocaleDateString(0 - 7), count |-> 5]>>

\* A list whose elements are no {date, count} records: two objects without
\* count, both dated nine days back.
NoCountList ==
  <<[date |-> ToLocaleDateString(0 - 9)], [date |-> ToLocaleDateString(0 - 9)]>>

\* Text cut off before its closing bracket.
Truncated(text) == SubSeq(text, 1, Len(text) - 1)

InitialStorage ==
  { Absent,
    Stored(<<>>),
    Stored(<<W("oops")>>),
    Stored(Truncated(JSONStringify(ExampleHistory))),
    Stored(<<W("null")>>),
    Stored(JSONStringify(<<>>)),
    Stored(JSONStringify(ExampleHistory)),
    Stored(JSONStringify(NoCountList)) }

----------------------------------------------------------------------------
(* The component *)

\* The effects of the first commit, in declaration order.
MountEffects == <<"setInterval", "mount", "load", "ensure", "save">>

\* Mutant of CommitEffects: the interval effect returns no cleanup.
CommitEffectsNoCleanup(dateChanged, clientChanged, historyChanged) ==
  (IF dateChanged THEN <<"setInterval">> ELSE <<>>)
  \o (IF clientChanged THEN <<"load">> ELSE <<>>)
  \o (IF dateChanged \/ clientChanged THEN <<"ensure">> ELSE <<>>)
  \o (IF historyChanged \/ clientChanged THEN <<"save">> ELSE <<>>)

\* Mutant of CommitEffects: the interval effect has no dependency, the timer
\* of the first commit stays.
CommitEffectsTimerKept(dateChanged, clientChanged, historyChanged) ==
  (IF clientChanged THEN <<"load">> ELSE <<>>)
  \o (IF dateChanged \/ clientChanged THEN <<"ensure">> ELSE <<>>)
  \o (IF historyChanged \/ clientChanged THEN <<"save">> ELSE <<>>)

\* The effects a commit schedules: those with a changed dependency, the
\* cleanup of the interval effect first.
CommitEffects(dateChanged, clientChanged, historyChanged) ==
  (IF dateChanged THEN <<"clearInterval", "setInterval">> ELSE <<>>)
  \o (IF clientChanged THEN <<"load">> ELSE <<>>)
  \o (IF dateChanged \/ clientChanged THEN <<"ensure">> ELSE <<>>)
  \o (IF historyChanged \/ clientChanged THEN <<"save">> ELSE <<>>)

Init ==
  /\ now = 0
  /\ storage \in InitialStorage
  /\ status = "mounted"
  /\ isClient = FALSE
  /\ history = <<>>
  /\ todayDate = getTodayDateString
  /\ qClient = FALSE
  /\ qDate = <<>>
  /\ qHist = <<>>
  /\ effects = MountEffects
  /\ timers = <<>>
  /\ summaryStats = SummaryStats(<<>>, 0)
  /\ todayCount = 0
  /\ fnOp = ""
  /\ fnIn = <<>>

Idle == status = "mounted" /\ effects = <<>>

\* The component function runs with the queued updates applied, and commits.
\* An updater or the render body throwing tears the tree down (there is no
\* error boundary): the interval effect's cleanup runs and the state is gone.
Render ==
  /\ Idle
  /\ qClient \/ qDate # <<>> \/ qHist # <<>>
  /\ LET s == ProcessQueue([arr |-> TRUE, val |-> history, changed |-> FALSE,
                            threw |-> FALSE], qHist)
         newClient == isClient \/ qClient
         newDate == IF qDate # <<>> THEN qDate[1] ELSE todayDate
     IN IF s.threw \/ ~s.arr
        THEN /\ status' = "crashed"
             /\ timers' = SubSeq(timers, 1, Len(timers) - 1)
             /\ isClient' = FALSE
             /\ history' = <<>>
             /\ summaryStats' = SummaryStats(<<>>, now)
             /\ todayCount' = 0
             /\ effects' = <<>>
             /\ UNCHANGED todayDate
        ELSE /\ history' = s.val
             /\ isClient' = newClient
             /\ todayDate' = newDate
             /\ summaryStats' = IF s.changed THEN SummaryStats(s.val, now)
                                ELSE summaryStats
             /\ todayCount' = IF s.changed \/ newDate # todayDate
                              THEN TodayCount(s.val, newDate) ELSE todayCount
             /\ effects' = CommitEffects(newDate # todayDate, newClient # isClient,
                                         s.changed)
             /\ UNCHANGED <<status, timers>>
  /\ qClient' = FALSE
  /\ qDate' = <<>>
  /\ qHist' = <<>>
  /\ UNCHANGED <<now, storage, fnOp, fnIn>>

RunEffect(name) ==
  /\ status = "mounted"
  /\ effects # <<>>
  /\ Head(effects) = name
  /\ effects' = Tail(effects)

\* useDate, cleanup: clearInterval(interval).
ClearIntervalEffect ==
  /\ RunEffect("clearInterval")
  /\ timers' = SubSeq(timers, 1, Len(timers) - 1)
  /\ UNCHANGED <<now, storage, status, isClient, history, todayDate, qClient,
                 qDate, qHist, summaryStats, todayCount, fnOp, fnIn>>

\* useDate, effect: setInterval with the rendered todayDate in its closure.
SetIntervalEffect ==
  /\ RunEffect("setInterval")
  /\ timers' = Append(timers, todayDate)
  /\ UNCHANGED <<now, storage, status, isClient, history, todayDate, qClient,
                 qDate, qHist, summaryStats, todayCount, fnOp, fnIn>>

\* setIsClient(true)
MountEffect ==
  /\ RunEffect("mount")
  /\ qClient' = TRUE
  /\ UNCHANGED <<now, storage, status, isClient, history, todayDate, qDate,
                 qHist, timers, summaryStats, todayCount, fnOp, fnIn>>

\* Load data from localStorage.
LoadEffect ==
  /\ RunEffect("load")
  /\ qHist' = IF ~isClient THEN qHist
              ELSE Append(qHist, [op |-> "set", v |-> LoadedHistory(storage)])
  /\ UNCHANGED <<now, storage, status, isClient, history, todayDate, qClient,
                 qDate, timers, summaryStats, todayCount, fnOp, fnIn>>

\* Ensure today's entry exists.
EnsureTodayEffect ==
  /\ RunEffect("ensure")
  /\ qHist' = IF ~isClient THEN qHist
              ELSE Append(qHist, [op |-> "ensure", date |-> todayDate])
  /\ UNCHANGED <<now, storage, status, isClient, history, todayDate, qClient,
                 qDate, timers, summaryStats, todayCount, fnOp, fnIn>>

\* Save data to localStorage.
SaveEffect ==
  /\ RunEffect("save")
  /\ storage' = SavedStorage(isClient, history, storage)
  /\ UNCHANGED <<now, status, isClient, history, todayDate, qClient, qDate,
                 qHist, timers, summaryStats, todayCount, fnOp, fnIn>>

\* One firing of an interval callback: it compares the clock's date with the
\* todayDate its closure captured.
Poll ==
  /\ Idle
  /\ \E i \in 1..Len(timers) :
       LET newDate == getTodayDateString
       IN qDate' = IF newDate # timers[i] THEN <<newDate>> ELSE qDate
  /\ UNCHANGED <<now, storage, status, isClient, history, todayDate, qClient,
                 qHist, effects, timers, summaryStats, todayCount, fnOp, fnIn>>

\* A click on "+1 Applied".
incrementCount ==
  /\ Idle
  /\ Len(qHist) < MaxQueue
  /\ LET s == ProcessQueue([arr |-> TRUE, val |-> history, changed |-> FALSE,
                            threw |-> FALSE], qHist)
     IN s.threw \/ ~s.arr \/ TodayCount(s.val, todayDate) < MaxCount
  /\ qHist' = Append(qHist, [op |-> "inc", date |-> todayDate])
  /\ UNCHANGED <<now, storage, status, isClient, history, todayDate, qClient,
                 qDate, effects, timers, summaryStats, todayCount, fnOp, fnIn>>

\* A click on "Reset Count", and the answer to window.confirm.
resetCount ==
  /\ Idle
  /\ Len(qHist) < MaxQueue
  /\ \E confirmed \in BOOLEAN :
       qHist' = IF confirmed THEN Append(qHist, [op |-> "reset", date |-> todayDate])
                ELSE qHist
  /\ UNCHANGED <<now, storage, status, isClient, history, todayDate, qClient,
                 qDate, effects, timers, summaryStats, todayCount, fnOp, fnIn>>

\* The component is torn down: the interval effect's cleanup runs and the
\* state is gone.
Unmount ==
  /\ status = "mounted"
  /\ status' = "unmounted"
  /\ timers' = SubSeq(timers, 1, Len(timers) - 1)
  /\ isClient' = FALSE
  /\ history' = <<>>
  /\ qClient' = FALSE
  /\ qDate' = <<>>
  /\ qHist' = <<>>
  /\ effects' = <<>>
  /\ summaryStats' = SummaryStats(<<>>, now)
  /\ todayCount' = 0
  /\ UNCHANGED <<now, storage, todayDate, fnOp, fnIn>>

\* The page is opened again: a new component instance, first commit.
Mount ==
  /\ status # "mounted"
  /\ status' = "mounted"
  /\ todayDate' = getTodayDateString
  /\ effects' = MountEffects
  /\ UNCHANGED <<now, storage, isClient, history, qClient, qDate, qHist, timers,
                 summaryStats, todayCount, fnOp, fnIn>>

\* The date of the system clock changes. Midnight passes at any time; the
\* effects do not read the clock, so a change during their run is the same
\* as one right after it. The clock or the time zone is set back between two
\* sessions.
ClockForward ==
  /\ effects = <<>>
  /\ now < MaxDay
  /\ now' = now + 1
  /\ UNCHANGED <<storage, status, isClient, history, todayDate, qClient, qDate,
                 qHist, effects, timers, summaryStats, todayCount, fnOp, fnIn>>

ClockBack ==
  /\ status # "mounted"
  /\ now > 0
  /\ now' = now - 1
  /\ UNCHANGED <<storage, status, isClient, history, todayDate, qClient, qDate,
                 qHist, effects, timers, summaryStats, todayCount, fnOp, fnIn>>

Next ==
  \/ Render
  \/ ClearIntervalEffect
  \/ SetIntervalEffect
  \/ MountEffect
  \/ LoadEffect
  \/ EnsureTodayEffect
  \/ SaveEffect
  \/ Poll
  \/ incrementCount
  \/ resetCount
  \/ Unmount
  \/ Mount
  \/ ClockForward
  \/ ClockBack

Spec == Init /\ [][Next]_vars

----------------------------------------------------------------------------
(* The store's functions on their own: the inputs are drawn from bounded    *)
(* sets and each step applies one function to the current history, keeping *)
(* the input in fnIn and the name of what was applied in fnOp.              *)

FnDates == { ToLocaleDateString(k) : k \in 0..MaxDay }

FnEntries == [date : FnDates, count : 0..MaxCount]

FnHistories == UNION { [1..n -> FnEntries] : n \in 0..FnMaxLen }

FnStorage == { Absent, Stored(JSONStringify(ExampleHistory)) }

FnInit ==
  /\ history \in FnHistories
  /\ todayDate \in FnDates
  /\ storage \in FnStorage
  /\ fnOp = ""
  /\ fnIn = <<>>
  /\ now = 0
  /\ status = "unmounted"
  /\ isClient = FALSE
  /\ qClient = FALSE
  /\ qDate = <<>>
  /\ qHist = <<>>
  /\ effects = <<>>
  /\ timers = <<>>
  /\ summaryStats = SummaryStats(<<>>, 0)
  /\ todayCount = 0

fnFrame == <<now, status, isClient, todayDate, qClient, qDate, qHist, effects,
             timers, summaryStats, todayCount>>

ApplyEnsureToday ==
  /\ history' = EnsureToday(history, todayDate)
  /\ fnOp' = "ensureToday"
  /\ fnIn' = history
  /\ UNCHANGED <<storage, fnFrame>>

ApplyIncrement ==
  /\ \A i \in 1..Len(history) : history[i].count < MaxCount
  /\ history' = IncrementUpdater(history, todayDate)
  /\ fnOp' = "increment"
  /\ fnIn' = history
  /\ UNCHANGED <<storage, fnFrame>>

\* A reset right after an increment keeps the increment's input.
ApplyReset ==
  /\ history' = ResetUpdater(history, todayDate)
  /\ fnOp' = IF fnOp = "increment" THEN "incrementReset" ELSE "reset"
  /\ fnIn' = IF fnOp = "increment" THEN fnIn ELSE history
  /\ UNCHANGED <<storage, fnFrame>>

\* The save effect's body on a client render.
ApplySave ==
  /\ storage' = SavedStorage(TRUE, history, storage)
  /\ fnOp' = "save"
  /\ fnIn' = history
  /\ UNCHANGED <<history, fnFrame>>

\* The load effect's value. A load right after a save keeps the save's input.
ApplyLoad ==
  /\ LoadedHistory(storage).arr
  /\ history' = LoadedHistory(storage).items
  /\ fnOp' = IF fnOp = "save" THEN "saveLoad" ELSE "load"
  /\ fnIn' = IF fnOp = "save" THEN fnIn ELSE history
  /\ UNCHANGED <<storage, fnFrame>>

\* The body of the summaryStats memo, on the history drawn.
ApplySummaryStats ==
  /\ fnOp = ""
  /\ summaryStats' = SummaryStats(history, now)
  /\ fnOp' = "summaryStats"
  /\ fnIn' = history
  /\ UNCHANGED <<history, storage, now, status, isClient, todayDate, qClient,
                 qDate, qHist, effects, timers, todayCount>>

FnNext ==
  \/ ApplyEnsureToday
  \/ ApplyIncrement
  \/ ApplyReset
  \/ ApplySave
  \/ ApplyLoad
  \/ ApplySummaryStats

FnSpec == FnInit /\ [][FnNext]_vars

----------------------------------------------------------------------------
(* Claims *)

\* The texts that encode a list of {date, count} records.
IsRecordList(text) ==
  LET r == JSONParse(text)
  IN /\ r.ok
     /\ r.arr
     /\ \A i \in 1..Len(r.items) : DOMAIN r.items[i] = {"date", "count"}

AbsentOrMalformed(stored) == ~stored.present \/ ~IsRecordList(stored.text)

\* No history update, state update or effect is waiting.
Quiescent == Idle /\ ~qClient /\ qDate = <<>> /\ qHist = <<>>

\* C1: the in-memory history holds at most one record per date, in every
\* state of a run started from an absent, malformed or unique-dated
\* persisted value.
C1_OneRecordPerDate ==
  \A i, j \in 1..Len(history) : history[i].date = history[j].date => i = j

\* C2: with an absent or malformed persisted value startup raises no error,
\* and the commit that follows the load and ensure-today effects holds
\* exactly one zero-count record for today. (That commit is the one after
\* which only the save effect is left and no update waits, while storage
\* still holds the value the session started from.)
C2_MalformedLoadsEmpty ==
  /\ status # "crashed"
  /\ (/\ status = "mounted" /\ isClient
      /\ effects = <<"save">> /\ qHist = <<>>
      /\ AbsentOrMalformed(storage))
       => history = <<[date |-> todayDate, count |-> 0]>>

\* C3: whenever no effect and no history update is waiting and the history is
\* not empty, storage holds the JSON text of the whole history; and storage
\* is never written while the in-memory history is empty.
C3_PersistedWhenSettled ==
  (Idle /\ qHist = <<>> /\ history # <<>>) => storage = Stored(JSONStringify(history))

C3_SavedAfterEveryMutation ==
  /\ []C3_PersistedWhenSettled
  /\ [][storage' # storage => history # <<>>]_vars

\* C3 witness: settled after a rollover's insertion and an increment, with
\* both records in storage.
C3_Witness ==
  /\ Quiescent
  /\ Len(history) = 2
  /\ history[1] = [date |-> ToLocaleDateString(1), count |-> 1]
  /\ storage = Stored(JSONStringify(history))

\* C4: while the component stays up, every date that has a record in the
\* history has one after every step.
C4_NeverDeleted ==
  [][(status = "mounted" /\ status' # "unmounted")
       => \A i \in 1..Len(history) : HasDate(history', history[i].date)]_vars

\* C4 witness: a rollover has put the new day's record in front of the
\* loaded ones, which are all still there.
C4_Witness ==
  /\ status = "mounted"
  /\ Len(history) = 4
  /\ history[1].date = ToLocaleDateString(1)
  /\ SubSeq(history, 2, 4) = ExampleHistory

\* C5: a date the detector has observed gets its record: once nothing is
\* left to run in a component that was not torn down, the history has a
\* record for the observed date.
C5_ObservedDateGetsRecord ==
  (/\ status # "unmounted" /\ effects = <<>>
   /\ ~qClient /\ qDate = <<>> /\ qHist = <<>>)
    => HasDate(history, todayDate)

\* C6: ensureToday is idempotent: applied to its own result it changes
\* nothing, and applied to a history that has a record for the date it
\* returns that history.
C6_EnsureTodayIdempotent ==
  fnOp = "ensureToday" =>
    /\ EnsureToday(history, todayDate) = history
    /\ HasDate(fnIn, todayDate) => history = fnIn

\* C6 witness: ensureToday has put a record in front of a non-empty history.
C6_Witness ==
  /\ fnOp = "ensureToday"
  /\ fnIn # <<>>
  /\ ~HasDate(fnIn, todayDate)
  /\ Len(history) = Len(fnIn) + 1

\* C7: increment adds exactly 1 to the count of the record(s) for the date
\* and leaves every other record, the length and the order as they were; a
\* history without a record for the date comes back unchanged.
C7_IncrementFrame ==
  fnOp = "increment" =>
    /\ Len(history) = Len(fnIn)
    /\ \A i \in 1..Len(fnIn) :
         IF fnIn[i].date = todayDate
         THEN history[i] = [date |-> todayDate, count |-> fnIn[i].count + 1]
         ELSE history[i] = fnIn[i]
    /\ ~HasDate(fnIn, todayDate) => history = fnIn

\* C7 witness: an increment of a history that has the date's record and a
\* record of another date.
C7_Witness ==
  /\ fnOp = "increment"
  /\ HasDate(fnIn, todayDate)
  /\ \E i \in 1..Len(fnIn) : fnIn[i].date # todayDate
  /\ history # fnIn

\* C8: after increment and then reset for the same date the record(s) for
\* the date have count 0 and every other record is where and what it was.
C8_IncrementThenReset ==
  fnOp = "incrementReset" =>
    /\ Len(history) = Len(fnIn)
    /\ \A i \in 1..Len(fnIn) :
         IF fnIn[i].date = todayDate
         THEN history[i] = [date |-> todayDate, count |-> 0]
         ELSE history[i] = fnIn[i]

\* C8 witness: increment then reset of a history whose record for the date
\* had a count above 0 and that has another record with a count above 0.
C8_Witness ==
  /\ fnOp = "incrementReset"
  /\ \E i \in 1..Len(fnIn) : fnIn[i].date = todayDate /\ fnIn[i].count > 0
  /\ \E i \in 1..Len(fnIn) : fnIn[i].date # todayDate /\ fnIn[i].count > 0

\* C9 as stated: for every valid history, a save followed by a load returns
\* that history.
C9_RoundTrip == fnOp = "saveLoad" => history = fnIn

\* C9 amended: for every valid history that is not empty, a save followed
\* by a load returns that history.
C9_RoundTripNonEmpty == (fnOp = "saveLoad" /\ fnIn # <<>>) => history = fnIn

\* C9 witness: a history of two records saved and loaded back.
C9_Witness ==
  /\ fnOp = "saveLoad"
  /\ Len(fnIn) = 2
  /\ storage = Stored(JSONStringify(fnIn))
  /\ history = fnIn

\* The dates of the seven days that end with day `day`.
InWindow(date, day) == \E k \in 0..6 : date = ToLocaleDateString(day - k)

WindowSum(h, day) ==
  SumCounts(Num(0), SelectSeq(h, LAMBDA e : InWindow(e.date, day)))

\* C10: the last7DaysTotal shown equals the sum of the counts of the records
\* dated from six days before the current date up to the current date.
\* (Stated for the settled states in which the observed date is the clock's.)
C10_Last7DaysTotal ==
  (Quiescent /\ todayDate = getTodayDateString)
    => summaryStats.last7DaysTotal = WindowSum(history, now)

\* C11: bestDay is a record of the history that has the maximum count, the
\* first such record in list order; for the empty history its count is 0.
C11_BestDay ==
  fnOp = "summaryStats" =>
    IF history = <<>> THEN summaryStats.bestDay.count = 0
    ELSE \E i \in 1..Len(history) :
           /\ summaryStats.bestDay = history[i]
           /\ \A j \in 1..Len(history) : history[j].count <= history[i].count
           /\ \A j \in 1..(i - 1) : history[j].count < history[i].count

\* The counts of the first n records, added up.
RECURSIVE CountsUpTo(_, _)
CountsUpTo(h, n) == IF n = 0 THEN 0 ELSE CountsUpTo(h, n - 1) + h[n].count

\* C12: total is the sum of the counts of all records of the history, 0 for
\* the empty history.
C12_Total ==
  fnOp = "summaryStats" =>
    /\ summaryStats.total = Num(CountsUpTo(history, Len(history)))
    /\ history = <<>> => summaryStats.total = Num(0)

\* C12 witness: the total of two records with counts above 0.
C12_Witness ==
  /\ fnOp = "summaryStats"
  /\ Len(history) = 2
  /\ history[1].count > 0
  /\ history[2].count > 0
  /\ summaryStats.total = Num(history[1].count + history[2].count)

\* The persisted values that hold no record.
EmptyStored(stored) ==
  ~stored.present \/ stored.text = <<>> \/ stored.text = JSONStringify(<<>>)

\* Only clicks on +1 wait, and no date change.
OnlyIncrementsQueued ==
  /\ qDate = <<>>
  /\ qHist # <<>>
  /\ \A i \in 1..Len(qHist) : qHist[i].op = "inc"

\* C13, startup: with no record persisted, the commit that follows the load
\* and ensure-today effects holds exactly the zero-count record of the day.
C13_Startup ==
  (/\ status = "mounted" /\ isClient
   /\ effects = <<"save">> /\ qHist = <<>>
   /\ EmptyStored(storage))
    => /\ history = <<[date |-> todayDate, count |-> 0]>>
       /\ todayCount = 0

\* C13, display: while the history is the one record of the observed date,
\* the today count and bestDay.count shown are that record's count.
C13_Shown ==
  (/\ status = "mounted" /\ isClient
   /\ Len(history) = 1
   /\ DOMAIN history[1] = {"date", "count"}
   /\ history[1].date = todayDate)
    => /\ todayCount = history[1].count
       /\ summaryStats.bestDay.count = history[1].count

\* C13, increments: a commit of n clicks on +1, with no reset and no date
\* change, on the history [{d, k}] gives the history [{d, k + n}] and shows
\* k + n as the today count and as bestDay.count.
C13_Increments ==
  (/\ status = "mounted" /\ isClient /\ status' = "mounted"
   /\ Len(history) = 1
   /\ DOMAIN history[1] = {"date", "count"}
   /\ history[1].date = todayDate
   /\ OnlyIncrementsQueued
   /\ qHist' = <<>>)
    => /\ history' = <<[date |-> todayDate, count |-> history[1].count + Len(qHist)]>>
       /\ todayDate' = todayDate
       /\ todayCount' = history[1].count + Len(qHist)
       /\ summaryStats'.bestDay.count = history[1].count + Len(qHist)

\* C13: from an empty persisted history on day d the history after startup
\* is [{d, 0}], and from there n increments with no reset and no date change
\* leave the count of d, the today count shown and bestDay.count at n.
C13_StartupThenIncrements ==
  /\ []C13_Startup
  /\ []C13_Shown
  /\ [][C13_Increments]_vars

\* C13 witness: two increments after a startup that found nothing persisted.
C13_Witness ==
  /\ Quiescent
  /\ isClient
  /\ history = <<[date |-> todayDate, count |-> 2]>>
  /\ todayCount = 2
  /\ summaryStats.bestDay.count = 2

\* Every count of the list is a non-negative integer.
CountsInNat(h) ==
  \A i \in 1..Len(h) : "count" \in DOMAIN h[i] => h[i].count \in Nat

\* C14: every count is a non-negative integer, in the history and in the
\* persisted value, in every state of a run whose persisted value started
\* with non-negative counts.
C14_CountsNonNegative ==
  /\ CountsInNat(history)
  /\ CountsInNat(LoadedHistory(storage).items)

\* C14 witness: today's count of the loaded history, which was 2, after a
\* reset.
C14_Witness ==
  /\ Quiescent
  /\ todayDate = ToLocaleDateString(0)
  /\ history = <<[date |-> todayDate, count |-> 0]>> \o Tail(ExampleHistory)
  /\ storage = Stored(JSONStringify(history))

C15_TotalAndBestDay ==
  status = "mounted" =>
    \A d \in 0..MaxDay :
      /\ summaryStats.total = SummaryStats(history, d).total
      /\ summaryStats.bestDay = SummaryStats(history, d).bestDay

\* C15 amended, part 2: a step that changes the history recomputes the
\* three statistics, last7DaysTotal with the clock's date of that moment.
C15_Recomputed ==
  (status' = "mounted" /\ history' # history)
    => summaryStats' = SummaryStats(history', now)

C16_PollStep ==
  /\ Poll => /\ todayDate' = todayDate
             /\ history' = history
             /\ qHist' = qHist
             /\ storage' = storage
  /\ ~(Poll /\ getTodayDateString = todayDate)
  /\ (qDate' # qDate /\ qDate' # <<>>)
       => /\ Poll
          /\ qDate' = <<getTodayDateString>>
          /\ getTodayDateString # todayDate
  /\ todayDate' # todayDate
       => \/ Mount
          \/ Render /\ qDate = <<todayDate'>>

\* C16: the detector changes the observed date only on a poll that computed
\* another date than the observed one; a poll that computes the same date
\* changes nothing, and no poll modifies the history.
C16_PollFrame == [][C16_PollStep]_vars

\* C16 witness: a poll has computed the next day's date and queued it; the
\* history and the persisted value are those of before.
C16_Witness ==
  /\ Idle
  /\ qDate = <<getTodayDateString>>
  /\ qDate[1] # todayDate
  /\ history # <<>>
  /\ ~HasDate(history, qDate[1])
  /\ storage = Stored(JSONStringify(history))

\* C17, states: at most one interval timer is active, and none, with no
\* date update waiting, once the component is torn down.
C17_TimerCount ==
  /\ Len(timers) <= 1
  /\ status # "mounted" => (timers = <<>> /\ qDate = <<>>)

\* C17, steps: while the component is torn down the observed date does not
\* change and no date update is queued.
C17_NoDateUpdate ==
  (status # "mounted" /\ status' # "mounted")
    => (todayDate' = todayDate /\ qDate' = qDate)

\* C17: at most one polling timer is active at any time, whatever the
\* number of date changes, and after teardown no timer is active and the
\* date is not updated any more.
C17_OneTimer ==
  /\ []C17_TimerCount
  /\ [][C17_NoDateUpdate]_vars

\* C17 witness: a date change is being committed: the cleanup has cleared
\* the old timer and the new one is about to be registered.
C17_Witness ==
  /\ status = "mounted"
  /\ isClient
  /\ effects = <<"setInterval", "ensure">>
  /\ timers = <<>>
  /\ todayDate = ToLocaleDateString(1)

\* C18, for one step: a write to storage keeps a record for every date that
\* had one in the persisted value, and happens when the in-memory history
\* has a record for each of them.
C18_WriteKeepsRecords ==
  storage' # storage =>
    LET persisted == LoadedHistory(storage).items
    IN \A i \in 1..Len(persisted) :
         /\ HasDate(history, persisted[i].date)
         /\ HasDate(LoadedHistory(storage').items, persisted[i].date)

\* C18: startup never loses persisted data: every value written to storage
\* has a record for every date of the value persisted before it, so every
\* value written after a startup from a valid history P has a record for
\* every date of P.
C18_StartupKeepsPersisted == [][C18_WriteKeepsRecords]_vars

\* C18 witness: after a startup from the persisted example history, a
\* rollover and an increment, the value written holds the new day's record
\* in front of the three persisted ones.
C18_Witness ==
  /\ status = "mounted"
  /\ storage = Stored(JSONStringify(
                  <<[date |-> ToLocaleDateString(1), count |-> 1]>> \o ExampleHistory))

\* C19, states: every queued ensure-today, increment or reset names the
\* observed date.
C19_QueuedForObservedDate ==
  \A i \in 1..Len(qHist) : qHist[i].op # "set" => qHist[i].date = todayDate

\* C19, steps: while the component stays up every record keeps its place
\* counted from the end of the list and its date, and a record whose date is
\* not the observed date is left as it is.
C19_OnlyObservedDateChanges ==
  (status = "mounted" /\ status' = "mounted" /\ history # <<>>)
    => /\ Len(history') >= Len(history)
       /\ \A i \in 1..Len(history) :
            LET j == i + Len(history') - Len(history)
            IN /\ history'[j].date = history[i].date
               /\ history[i].date # todayDate => history'[j] = history[i]

\* C19: past days are frozen: increment and reset change only the record
\* of the observed date, so the record of a date that is no longer the
\* observed one keeps its count.
C19_PastDaysFrozen ==
  /\ []C19_QueuedForObservedDate
  /\ [][C19_OnlyObservedDateChanges]_vars

\* C19 witness: the observed date has moved on a day and the new day's
\* record was incremented; the records of the days before are as loaded.
C19_Witness ==
  /\ Quiescent
  /\ todayDate = ToLocaleDateString(1)
  /\ todayCount = 1
  /\ history = <<[date |-> todayDate, count |-> 1]>> \o ExampleHistory

====
